---- MODULE Spec2Model ----
(***************************************************************************)
(* Model of koron/otf2ccbdf: the 1-bit packed bitmap (internal/bitimg),    *)
(* the codepoint scanner runeIter, and the BDF converter (Run, Convert,    *)
(* writeHeader, writeBody) of main.go.                                     *)
(***************************************************************************)
EXTENDS Integers, Sequences, FiniteSets, TLC

VARIABLES
    \* internal/bitimg: the two reusable cell bitmaps; lastSet remembers, per pixel,
    \* the value of the latest Set since the last Clear
    halfImg, fullImg, imgPanic, lastSet, nOps,
    \* runeIter driven twice by a collecting consumer
    itFilter, itR, itPass, itOut1, itOut2, itStopped,
    \* the font behind the face: codepoint -> advance (fixed.Int26_6)
    face,
    \* Run / newBDFConverter / Convert / writeHeader / writeBody
    pc, args, result, ret, fontRead, faceClosed, cvt, fileExists, closed,
    file, wbuf, werr, emitted, r, glyphCount, widthSum, toks

imgVars  == <<halfImg, fullImg, imgPanic, lastSet, nOps>>
iterVars == <<itFilter, itR, itPass, itOut1, itOut2, itStopped>>
runVars  == <<pc, args, result, ret, fontRead, faceClosed, cvt, fileExists,
              closed, file, wbuf, werr, emitted, r, glyphCount, widthSum, toks>>
vars     == <<imgVars, iterVars, face, runVars>>

----------------------------------------------------------------------------
\* Bounds of the model

\* stands for 0xffff, the last codepoint runeIter visits
MaxRune == 2
\* capacity of the bufio.Writer, in tokens
BufCap == 4
\* number of Set/Clear calls explored on the bitmaps
MaxOps == 2
\* cell size of the bitmaps explored on their own (full = ImgSize, half = ImgSize/2)
ImgSize == 10
\* rows of the bitmaps explored on their own
ImgH == 2

\* -size values explored
Sizes == {-3, -2, -1, 0, 1, 2, 3, 4}
\* advances (26.6 fixed point) a glyph may have: -2, 0, 2 and 2.5 pixels
Advances == {-128, 0, 128, 160}

Nil == "nil"

----------------------------------------------------------------------------
\* Go integer arithmetic: / truncates toward zero, % takes the dividend's sign

Abs(a) == IF a < 0 THEN 0 - a ELSE a

GoDiv(a, b) ==
    LET q == Abs(a) \div Abs(b)
    IN  IF (a < 0) # (b < 0) THEN 0 - q ELSE q

GoRem(a, b) == a - b * GoDiv(a, b)

\* fixed.Int26_6.Round: (x + 0x20) >> 6, an arithmetic shift
Round(x) == (x + 32) \div 64

Pow2(n) == IF n = 0 THEN 1 ELSE IF n = 1 THEN 2 ELSE IF n = 2 THEN 4
           ELSE IF n = 3 THEN 8 ELSE IF n = 4 THEN 16 ELSE IF n = 5 THEN 32
           ELSE IF n = 6 THEN 64 ELSE 128

----------------------------------------------------------------------------
\* internal/bitimg

\* colours handed to Set: a Bit, or an opaque colour with 16-bit channels
BitOn   == [kind |-> "bit", on |-> TRUE]
BitOff  == [kind |-> "bit", on |-> FALSE]
RGB(v)  == [kind |-> "rgb", red |-> v, green |-> v, blue |-> v]
White   == RGB(65535)
Black   == RGB(0)
Gray127 == RGB(32767)
Gray128 == RGB(32896)
Colors  == {BitOn, BitOff, White, Gray127}

\* color.GrayModel.Convert(c).Y
\* (19595*r + 38470*g + 7471*b + 1<<15) >> 24, the channels split in high and
\* low bytes to stay inside 32 bits
GrayY(c) ==
    LET hi == 19595 * (c.red \div 256) + 38470 * (c.green \div 256) + 7471 * (c.blue \div 256)
        lo == 19595 * (c.red % 256) + 38470 * (c.green % 256) + 7471 * (c.blue % 256) + 32768
    IN  ((hi + (lo \div 256)) \div 65536) % 256

toBit(c) == IF c.kind = "bit" THEN c.on ELSE GrayY(c) > 127

\* image.Rect: a canonical rectangle
Rect(x0, y0, x1, y1) ==
    [minX |-> IF x0 > x1 THEN x1 ELSE x0, minY |-> IF y0 > y1 THEN y1 ELSE y0,
     maxX |-> IF x0 > x1 THEN x0 ELSE x1, maxY |-> IF y0 > y1 THEN y0 ELSE y1]

Dx(rc) == rc.maxX - rc.minX
Dy(rc) == rc.maxY - rc.minY

New(rc) ==
    LET xn == GoDiv(Dx(rc) + 7, 8)
    IN  [buf |-> [i \in 1..(xn * Dy(rc)) |-> 0], xn |-> xn, rect |-> rc]

Clear(img) == [img EXCEPT !.buf = [i \in 1..Len(img.buf) |-> 0]]

\* address with the row stride forgotten
addressNoStride(img, x, y) ==
    LET x1 == x - img.rect.minX
        y1 == y - img.rect.minY
    IN  [index |-> y1 + GoDiv(x1, 8), shift |-> GoRem(x1, 8)]

\* address: byte index (0-based) and bit shift of a pixel
address(img, x, y) ==
    LET x1 == x - img.rect.minX
        y1 == y - img.rect.minY
    IN  [index |-> y1 * img.xn + GoDiv(x1, 8), shift |-> GoRem(x1, 8)]

HasBit(b, mask) == (b \div mask) % 2 = 1

\* Set panics on a negative byte index (index out of range) or a negative
\* shift count; an index at or past the end returns early
SetPanics(img, x, y) ==
    LET a == address(img, x, y)
    IN  a.index < Len(img.buf) /\ (a.index < 0 \/ a.shift < 0)

Set(img, x, y, c) ==
    LET a    == address(img, x, y)
        mask == Pow2(7 - a.shift)
        old  == img.buf[a.index + 1]
    IN  IF a.index >= Len(img.buf) THEN img
        ELSE IF toBit(c)
             THEN [img EXCEPT !.buf[a.index + 1] =
                        IF HasBit(old, mask) THEN old ELSE old + mask]
             ELSE [img EXCEPT !.buf[a.index + 1] =
                        IF HasBit(old, mask) THEN old - mask ELSE old]

\* At: color.White (TRUE) or color.Black (FALSE)
At(img, x, y) ==
    LET a == address(img, x, y)
    IN  HasBit(img.buf[a.index + 1], Pow2(7 - a.shift))

InBounds(img, x, y) ==
    /\ x >= img.rect.minX /\ x < img.rect.maxX
    /\ y >= img.rect.minY /\ y < img.rect.maxY

Pixels(img) == {p \in (img.rect.minX..(img.rect.maxX - 1)) \X (img.rect.minY..(img.rect.maxY - 1)) : TRUE}

Which == {"half", "full"}
Img(w) == IF w = "half" THEN halfImg ELSE fullImg

\* coordinates tried by a caller that may draw off the surface
AnyX(img) == (img.rect.minX - 9)..(img.rect.maxX + 8)
AnyY(img) == (img.rect.minY - 1)..(img.rect.maxY + 1)

ImgInit ==
    /\ halfImg = New(Rect(0, 0, ImgSize \div 2, ImgH))
    /\ fullImg = New(Rect(0, 0, ImgSize, ImgH))
    /\ imgPanic = FALSE
    /\ lastSet = [w \in Which |-> [p \in Pixels(New(Rect(0, 0, IF w = "half" THEN ImgSize \div 2 ELSE ImgSize, ImgH))) |-> "none"]]
    /\ nOps = 0

ImgIdle ==
    /\ halfImg = New(Rect(0, 0, 0, 0))
    /\ fullImg = New(Rect(0, 0, 0, 0))
    /\ imgPanic = FALSE
    /\ lastSet = [w \in Which |-> <<>>]
    /\ nOps = 0

\* one call img.Set(x, y, c) on the bitmap w
DoSet(w, x, y, c) ==
    /\ nOps' = nOps + 1
    /\ IF SetPanics(Img(w), x, y)
       THEN /\ imgPanic' = TRUE
            /\ UNCHANGED <<halfImg, fullImg, lastSet>>
       ELSE /\ imgPanic' = FALSE
            /\ halfImg' = IF w = "half" THEN Set(halfImg, x, y, c) ELSE halfImg
            /\ fullImg' = IF w = "full" THEN Set(fullImg, x, y, c) ELSE fullImg
            /\ lastSet' = IF InBounds(Img(w), x, y)
                          THEN [lastSet EXCEPT ![w][<<x, y>>] = IF toBit(c) THEN "on" ELSE "off"]
                          ELSE lastSet

\* Set at a pixel inside the bounds
ImgSetIn ==
    /\ nOps < MaxOps /\ ~imgPanic
    /\ \E w \in Which : \E p \in Pixels(Img(w)) : \E c \in Colors :
          DoSet(w, p[1], p[2], c)
    /\ UNCHANGED <<iterVars, face, runVars>>

\* Set at any coordinate, on or off the surface
ImgSet ==
    /\ nOps < MaxOps /\ ~imgPanic
    /\ \E w \in Which : \E x \in AnyX(Img(w)) : \E y \in AnyY(Img(w)) : \E c \in Colors :
          DoSet(w, x, y, c)
    /\ UNCHANGED <<iterVars, face, runVars>>

ImgClear ==
    /\ nOps < MaxOps /\ ~imgPanic
    /\ \E w \in Which :
          /\ halfImg' = IF w = "half" THEN Clear(halfImg) ELSE halfImg
          /\ fullImg' = IF w = "full" THEN Clear(fullImg) ELSE fullImg
          /\ lastSet' = [lastSet EXCEPT ![w] = [p \in DOMAIN lastSet[w] |-> "none"]]
    /\ nOps' = nOps + 1
    /\ UNCHANGED <<imgPanic, iterVars, face, runVars>>

----------------------------------------------------------------------------
\* runeIter

Faces == UNION {[D -> Advances] : D \in SUBSET (0..MaxRune)}

\* face.GlyphAdvance(r)
GlyphAdvance(f, c) ==
    IF c \in DOMAIN f THEN [adv |-> f[c], ok |-> TRUE] ELSE [adv |-> 0, ok |-> FALSE]

\* the loop condition off by one: r < 0xffff
runeIterCondExclusive(c) == c < MaxRune

\* the loop condition r <= 0xffff
runeIterCond(c) == c <= MaxRune

\* filter(r), with a nil filter accepting everything
NilFilter == [kind |-> "nil", accept |-> {}]
FuncFilter(S) == [kind |-> "func", accept |-> S]
Filter(flt, c) == flt.kind = "nil" \/ c \in flt.accept

\* the body reaches yield: the glyph has an advance and the filter accepts
runeIterYields(f, flt, c) == GlyphAdvance(f, c).ok /\ Filter(flt, c)

IterInit ==
    /\ itFilter \in {NilFilter} \cup {FuncFilter(S) : S \in SUBSET (0..MaxRune)}
    /\ itR = 0 /\ itPass = 1 /\ itOut1 = <<>> /\ itOut2 = <<>> /\ itStopped = FALSE

IterIdle ==
    /\ itFilter = NilFilter
    /\ itR = 0 /\ itPass = 0 /\ itOut1 = <<>> /\ itOut2 = <<>> /\ itStopped = FALSE

\* one iteration of the loop; the consumer appends the pair and may stop
IterStep ==
    /\ itPass \in {1, 2} /\ runeIterCond(itR)
    /\ IF runeIterYields(face, itFilter, itR)
       THEN \E more \in BOOLEAN :
              /\ itOut1' = IF itPass = 1 THEN Append(itOut1, <<itR, GlyphAdvance(face, itR).adv>>) ELSE itOut1
              /\ itOut2' = IF itPass = 2 THEN Append(itOut2, <<itR, GlyphAdvance(face, itR).adv>>) ELSE itOut2
              /\ IF more
                 THEN itR' = itR + 1 /\ UNCHANGED <<itPass, itStopped>>
                 ELSE itStopped' = TRUE /\ itPass' = 3 /\ UNCHANGED itR
       ELSE itR' = itR + 1 /\ UNCHANGED <<itOut1, itOut2, itPass, itStopped>>
    /\ UNCHANGED <<itFilter, imgVars, face, runVars>>

\* the loop ends; a second invocation starts again from rune 0
IterEnd ==
    /\ itPass \in {1, 2} /\ ~runeIterCond(itR)
    /\ itPass' = itPass + 1
    /\ itR' = IF itPass = 1 THEN 0 ELSE itR
    /\ UNCHANGED <<itFilter, itOut1, itOut2, itStopped, imgVars, face, runVars>>

----------------------------------------------------------------------------
\* bufio.Writer over the output file

\* w.Write(tok): a full buffer is flushed to the file first; the file may
\* accept only the first n buffered tokens, and the error is then sticky
WriterWrite(tok) ==
    IF werr
    THEN UNCHANGED <<file, wbuf, werr, emitted>>
    ELSE IF Len(wbuf) < BufCap
    THEN /\ wbuf' = Append(wbuf, tok)
         /\ emitted' = Append(emitted, tok)
         /\ UNCHANGED <<file, werr>>
    ELSE \E n \in 0..Len(wbuf) :
         /\ file' = file \o SubSeq(wbuf, 1, n)
         /\ IF n = Len(wbuf)
            THEN wbuf' = <<tok>> /\ werr' = FALSE /\ emitted' = Append(emitted, tok)
            ELSE wbuf' = SubSeq(wbuf, n + 1, Len(wbuf)) /\ werr' = TRUE /\ emitted' = emitted

\* w.Flush(), its result dropped by the defer
WriterFlush ==
    IF werr \/ Len(wbuf) = 0
    THEN UNCHANGED <<file, wbuf, werr>>
    ELSE \E n \in 0..Len(wbuf) :
         /\ file' = file \o SubSeq(wbuf, 1, n)
         /\ wbuf' = SubSeq(wbuf, n + 1, Len(wbuf))
         /\ werr' = (n < Len(wbuf))

----------------------------------------------------------------------------
\* BDFConverter

\* face.Metrics(), rounded
FaceMetrics == [ascent |-> 1, descent |-> 1]

\* int(((float64(size) * 10 * 72) / 722.7) + 0.5)
PixelSize(size) == GoDiv(size * 14400 + 7227, 14454)

\* writeHeader's classification of one advance
headerWidth(c, adv) == IF Round(adv) > c.halfWidth THEN c.fullWidth ELSE c.halfWidth

\* writeBody's classification of one advance
bodyWidth(c, adv) == IF Round(adv) > c.halfWidth THEN c.fullWidth ELSE c.halfWidth

\* the map with chars counting every codepoint visited
HeaderDataAllRunes(c, count, sum) ==
    [name |-> c.name, pixelSize |-> PixelSize(c.size), pointSize |-> c.size * 10,
     averageWidth |-> GoDiv(sum * 10, count), size |-> c.size, width |-> c.fullWidth,
     height |-> c.height, descent |-> 0 - c.descent, chars |-> MaxRune + 1]

\* the map handed to headTmpl
HeaderData(c, count, sum) ==
    [name |-> c.name, pixelSize |-> PixelSize(c.size), pointSize |-> c.size * 10,
     averageWidth |-> GoDiv(sum * 10, count), size |-> c.size, width |-> c.fullWidth,
     height |-> c.height, descent |-> 0 - c.descent, chars |-> count]

headTmpl(d) ==
    << [t |-> "STARTFONT"],
       [t |-> "FONT", name |-> d.name, pixelSize |-> d.pixelSize,
        pointSize |-> d.pointSize, averageWidth |-> d.averageWidth],
       [t |-> "SIZE", size |-> d.size],
       [t |-> "FONTBOUNDINGBOX", width |-> d.width, height |-> d.height, descent |-> d.descent],
       [t |-> "CHARS", chars |-> d.chars] >>

\* the glyph record with ENDCHAR ahead of the bitmap
bodyTmplEndFirst(d) ==
    << [t |-> "STARTCHAR", rune |-> d.rune],
       [t |-> "ENCODING", rune |-> d.rune],
       [t |-> "DWIDTH", width |-> d.width],
       [t |-> "BBX", width |-> d.width, height |-> d.height, descent |-> d.descent],
       [t |-> "ENDCHAR"],
       [t |-> "BITMAP", rows |-> d.bitmap] >>

bodyTmpl(d) ==
    << [t |-> "STARTCHAR", rune |-> d.rune],
       [t |-> "ENCODING", rune |-> d.rune],
       [t |-> "DWIDTH", width |-> d.width],
       [t |-> "BBX", width |-> d.width, height |-> d.height, descent |-> d.descent],
       [t |-> "BITMAP", rows |-> d.bitmap],
       [t |-> "ENDCHAR"] >>

\* fmt "%X" of a byte slice: two hex digits per byte
HexRow(b) == [i \in 1..(2 * Len(b)) |->
                 IF i % 2 = 1 THEN b[(i + 1) \div 2] \div 16 ELSE b[i \div 2] % 16]

\* the row loop: for len(b) > 0 { b[:xn]; b = b[xn:] }
RECURSIVE BitmapRows(_, _)
BitmapRows(b, xn) ==
    IF Len(b) = 0 THEN <<>>
    ELSE <<HexRow(SubSeq(b, 1, xn))>> \o BitmapRows(SubSeq(b, xn + 1, Len(b)), xn)

\* the rasterizer's coverage of a glyph, drawn through Set and clipped to the
\* destination bounds
GlyphInk(c) == << [x |-> c % 3, y |-> 0, col |-> White],
                  [x |-> 1, y |-> 1, col |-> Gray127],
                  [x |-> 0, y |-> 1, col |-> Gray128] >>

DrawPixel(img, p) == IF InBounds(img, p.x, p.y) THEN Set(img, p.x, p.y, p.col) ELSE img

DrawString(img, c) ==
    DrawPixel(DrawPixel(DrawPixel(img, GlyphInk(c)[1]), GlyphInk(c)[2]), GlyphInk(c)[3])

RunInit ==
    /\ pc = "run"
    /\ args \in [narg : {0, 1}, out : {"", "out.bdf"}, size : Sizes]
    /\ result = "none" /\ ret = "none"
    /\ fontRead = FALSE /\ faceClosed = FALSE /\ cvt = Nil
    /\ fileExists = FALSE /\ closed = FALSE
    /\ file = <<>> /\ wbuf = <<>> /\ werr = FALSE /\ emitted = <<>>
    /\ r = 0 /\ glyphCount = 0 /\ widthSum = 0 /\ toks = <<>>

RunIdle ==
    /\ pc = "idle"
    /\ args = [narg |-> 0, out |-> "", size |-> 0]
    /\ result = "none" /\ ret = "none"
    /\ fontRead = FALSE /\ faceClosed = FALSE /\ cvt = Nil
    /\ fileExists = FALSE /\ closed = FALSE
    /\ file = <<>> /\ wbuf = <<>> /\ werr = FALSE /\ emitted = <<>>
    /\ r = 0 /\ glyphCount = 0 /\ widthSum = 0 /\ toks = <<>>

\* Run: flag checks
RunArgs ==
    /\ pc = "run"
    /\ IF args.narg = 0 \/ args.out = "" \/ GoRem(args.size, 2) = 1
       THEN pc' = "done" /\ result' = "err"
       ELSE pc' = "new" /\ UNCHANGED result
    /\ UNCHANGED <<args, ret, fontRead, faceClosed, cvt, fileExists, closed, file,
                   wbuf, werr, emitted, r, glyphCount, widthSum, toks>>
    /\ UNCHANGED <<imgVars, iterVars, face>>

\* newBDFConverter: read, parse, family name, face
NewBDFConverter ==
    /\ pc = "new"
    /\ fontRead' = TRUE
    /\ \E outcome \in {"read_err", "parse_err", "face_err", "ok"} : \E nameOk \in BOOLEAN :
          IF outcome = "ok"
          THEN /\ cvt' = [name |-> IF nameOk THEN "Family" ELSE "Unknown",
                          size |-> args.size, halfWidth |-> GoDiv(args.size, 2),
                          fullWidth |-> args.size, height |-> args.size,
                          ascent |-> FaceMetrics.ascent, descent |-> FaceMetrics.descent]
               /\ pc' = "convert" /\ UNCHANGED result
          ELSE /\ pc' = "done" /\ result' = "err" /\ UNCHANGED cvt
    /\ UNCHANGED <<args, ret, faceClosed, fileExists, closed, file,
                   wbuf, werr, emitted, r, glyphCount, widthSum, toks>>
    /\ UNCHANGED <<imgVars, iterVars, face>>

\* Convert: os.Create, bufio.NewWriter, then writeHeader starts
ConvertCreate ==
    /\ pc = "convert"
    /\ \E ok \in BOOLEAN :
          IF ok
          THEN /\ fileExists' = TRUE /\ file' = <<>> /\ wbuf' = <<>>
               /\ glyphCount' = 0 /\ widthSum' = 0 /\ r' = 0
               /\ pc' = "hdr_scan" /\ UNCHANGED ret
          ELSE /\ ret' = "err" /\ pc' = "run_ret"
               /\ UNCHANGED <<fileExists, file, wbuf, glyphCount, widthSum, r>>
    /\ UNCHANGED <<args, result, fontRead, faceClosed, cvt, closed, werr, emitted, toks>>
    /\ UNCHANGED <<imgVars, iterVars, face>>

\* writeHeader: one iteration of the counting loop
HeaderScan ==
    /\ pc = "hdr_scan" /\ runeIterCond(r)
    /\ IF runeIterYields(face, NilFilter, r)
       THEN /\ glyphCount' = glyphCount + 1
            /\ widthSum' = widthSum + headerWidth(cvt, GlyphAdvance(face, r).adv)
       ELSE UNCHANGED <<glyphCount, widthSum>>
    /\ r' = r + 1
    /\ UNCHANGED <<pc, args, result, ret, fontRead, faceClosed, cvt, fileExists, closed,
                   file, wbuf, werr, emitted, toks>>
    /\ UNCHANGED <<imgVars, iterVars, face>>

\* writeHeader: the template data is built; the division panics on no glyphs
HeaderExecute ==
    /\ pc = "hdr_scan" /\ ~runeIterCond(r)
    /\ IF glyphCount = 0
       THEN ret' = "panic" /\ pc' = "defer" /\ UNCHANGED toks
       ELSE toks' = headTmpl(HeaderData(cvt, glyphCount, widthSum))
            /\ pc' = "hdr_write" /\ UNCHANGED ret
    /\ UNCHANGED <<args, result, fontRead, faceClosed, cvt, fileExists, closed,
                   file, wbuf, werr, emitted, r, glyphCount, widthSum>>
    /\ UNCHANGED <<imgVars, iterVars, face>>

\* headTmpl.Execute: the next piece of the header goes to the writer
HeaderWrite ==
    /\ pc = "hdr_write"
    /\ WriterWrite(Head(toks))
    /\ IF werr'
       THEN ret' = "err" /\ pc' = "defer" /\ UNCHANGED toks
       ELSE /\ toks' = Tail(toks) /\ UNCHANGED ret
            /\ pc' = IF Tail(toks) = <<>> THEN "body_start" ELSE "hdr_write"
    /\ UNCHANGED <<args, result, fontRead, faceClosed, cvt, fileExists, closed,
                   r, glyphCount, widthSum>>
    /\ UNCHANGED <<imgVars, iterVars, face>>

\* writeBody: the two cell bitmaps and the drawer
BodyStart ==
    /\ pc = "body_start"
    /\ fullImg' = New(Rect(0, 0, cvt.fullWidth, cvt.height))
    /\ halfImg' = New(Rect(0, 0, cvt.halfWidth, cvt.height))
    /\ r' = 0
    /\ pc' = "body_scan"
    /\ UNCHANGED <<args, result, ret, fontRead, faceClosed, cvt, fileExists, closed,
                   file, wbuf, werr, emitted, glyphCount, widthSum, toks>>
    /\ UNCHANGED <<imgPanic, lastSet, nOps, iterVars, face>>

\* writeBody: one iteration; a glyph is classified, drawn and dumped
BodyScan ==
    /\ pc = "body_scan" /\ runeIterCond(r)
    /\ IF runeIterYields(face, NilFilter, r)
       THEN LET adv    == GlyphAdvance(face, r).adv
                width  == bodyWidth(cvt, adv)
                isFull == Round(adv) > cvt.halfWidth
                img    == DrawString(Clear(IF isFull THEN fullImg ELSE halfImg), r)
            IN  /\ fullImg' = IF isFull THEN img ELSE fullImg
                /\ halfImg' = IF isFull THEN halfImg ELSE img
                /\ toks' = bodyTmpl([rune |-> r, width |-> width, height |-> cvt.height,
                                     descent |-> 0 - cvt.descent,
                                     bitmap |-> BitmapRows(img.buf, img.xn)])
                /\ pc' = "body_write" /\ UNCHANGED r
       ELSE r' = r + 1 /\ UNCHANGED <<pc, toks, halfImg, fullImg>>
    /\ UNCHANGED <<args, result, ret, fontRead, faceClosed, cvt, fileExists, closed,
                   file, wbuf, werr, emitted, glyphCount, widthSum>>
    /\ UNCHANGED <<imgPanic, lastSet, nOps, iterVars, face>>

\* bodyTmpl.Execute: the next piece of the glyph record goes to the writer
BodyWrite ==
    /\ pc = "body_write"
    /\ WriterWrite(Head(toks))
    /\ IF werr'
       THEN ret' = "err" /\ pc' = "defer" /\ UNCHANGED <<toks, r>>
       ELSE /\ toks' = Tail(toks) /\ UNCHANGED ret
            /\ IF Tail(toks) = <<>>
               THEN pc' = "body_scan" /\ r' = r + 1
               ELSE pc' = "body_write" /\ UNCHANGED r
    /\ UNCHANGED <<args, result, fontRead, faceClosed, cvt, fileExists, closed,
                   glyphCount, widthSum>>
    /\ UNCHANGED <<imgVars, iterVars, face>>

\* writeBody: the loop is over, nil is returned
BodyEnd ==
    /\ pc = "body_scan" /\ ~runeIterCond(r)
    /\ ret' = "nil" /\ pc' = "defer"
    /\ UNCHANGED <<args, result, fontRead, faceClosed, cvt, fileExists, closed,
                   file, wbuf, werr, emitted, r, glyphCount, widthSum, toks>>
    /\ UNCHANGED <<imgVars, iterVars, face>>

\* Convert's defers, last first: w.Flush(), then f.Close()
ConvertDefer ==
    /\ pc = "defer"
    /\ WriterFlush
    /\ closed' = TRUE
    /\ pc' = "run_ret"
    /\ UNCHANGED <<args, result, ret, fontRead, faceClosed, cvt, fileExists,
                   emitted, r, glyphCount, widthSum, toks>>
    /\ UNCHANGED <<imgVars, iterVars, face>>

\* Run's defer cvt.Close(), and Run's result
RunReturn ==
    /\ pc = "run_ret"
    /\ faceClosed' = TRUE
    /\ result' = ret
    /\ pc' = "done"
    /\ UNCHANGED <<args, ret, fontRead, cvt, fileExists, closed, file, wbuf, werr,
                   emitted, r, glyphCount, widthSum, toks>>
    /\ UNCHANGED <<imgVars, iterVars, face>>

----------------------------------------------------------------------------
\* Specifications

\* a conversion run
Init == ImgIdle /\ IterIdle /\ face \in Faces /\ RunInit
Next == \/ RunArgs \/ NewBDFConverter \/ ConvertCreate \/ HeaderScan \/ HeaderExecute
        \/ HeaderWrite \/ BodyStart \/ BodyScan \/ BodyWrite \/ BodyEnd
        \/ ConvertDefer \/ RunReturn
Spec == Init /\ [][Next]_vars

\* the bitmaps, written inside their bounds
InitImg == ImgInit /\ IterIdle /\ face = <<>> /\ RunIdle
NextImg == ImgSetIn \/ ImgClear
SpecImg == InitImg /\ [][NextImg]_vars

\* the bitmaps, written at any coordinate
NextImgAny == ImgSet \/ ImgClear
SpecImgAny == InitImg /\ [][NextImgAny]_vars

\* runeIter invoked twice on one face
InitIter == ImgIdle /\ IterInit /\ face \in Faces /\ RunIdle
NextIter == IterStep \/ IterEnd
SpecIter == InitIter /\ [][NextIter]_vars

----------------------------------------------------------------------------
\* Properties

IsPrefix(s, t) == Len(s) <= Len(t) /\ SubSeq(t, 1, Len(s)) = s

CountKind(s, kind) == Len(SelectSeq(s, LAMBDA x : x.t = kind))

HeaderKinds == <<"STARTFONT", "FONT", "SIZE", "FONTBOUNDINGBOX", "CHARS">>
RecordKinds == <<"STARTCHAR", "ENCODING", "DWIDTH", "BBX", "BITMAP", "ENDCHAR">>
StreamKind(i) == IF i <= 5 THEN HeaderKinds[i] ELSE RecordKinds[((i - 6) % 6) + 1]

Finished == pc = "done"
Succeeded == pc = "done" /\ result = "nil"

EvenPositive(n) == n > 0 /\ n % 2 = 0

\* C1: a -size that is not an even positive integer makes Run return an error
\* before the font is read and before the output file is created.
SizeRejectedBeforeLoad ==
    ~EvenPositive(args.size) =>
        /\ ~fontRead /\ ~fileExists
        /\ (Finished => result = "err")

\* C2: with no glyph in range the conversion ends with an error returned by
\* writeHeader, without a panic, and no header is emitted.
NoGlyphsFailsCleanly ==
    (pc \in {"defer", "run_ret", "done"} /\ fileExists /\ DOMAIN face = {}) =>
        (ret = "err" /\ emitted = <<>>)

\* C3: Run returns nil only if no write failed and every emitted piece of
\* header and body reached the output file.
WriteFailureReported ==
    Succeeded => (~werr /\ file = emitted)

PartialBDF(s) ==
    \E i \in 1..Len(s) : s[i].t = "CHARS" /\ CountKind(s, "ENDCHAR") < s[i].chars

\* C4: after a conversion that fails once the file exists, the file does not
\* hold a header whose CHARS count exceeds the complete glyph records after it.
NoPartialFileAfterFailure ==
    (Finished /\ fileExists /\ result # "nil") => ~PartialBDF(file)

\* C5: the stream is the header, once and first, then one glyph record per
\* scanned codepoint in ascending order, then the close; the file holds a
\* prefix of that stream.
HeaderThenBody ==
    /\ \A i \in 1..Len(emitted) : emitted[i].t = StreamKind(i)
    /\ \A i, j \in 1..Len(emitted) :
          (i < j /\ emitted[i].t = "STARTCHAR" /\ emitted[j].t = "STARTCHAR")
              => emitted[i].rune < emitted[j].rune
    /\ \A i \in 1..Len(emitted) :
          /\ emitted[i].t = "STARTCHAR" => emitted[i].rune \in DOMAIN face
          /\ emitted[i].t = "ENCODING" => emitted[i].rune = emitted[i - 1].rune
    /\ IsPrefix(file, emitted)
    /\ closed => pc \in {"run_ret", "done"}
    /\ Succeeded =>
          /\ {emitted[i].rune : i \in {k \in 1..Len(emitted) : emitted[k].t = "STARTCHAR"}} = DOMAIN face
          /\ Len(emitted) = 5 + 6 * Cardinality(DOMAIN face)
          /\ closed

WitnessHeaderThenBody ==
    Succeeded /\ Cardinality(DOMAIN face) >= 2 /\ file = emitted /\ closed

\* C6: after a successful conversion CHARS equals the number of glyph records,
\* and both equal the number of codepoints for which the face has an advance.
CharsMatchesGlyphs ==
    Succeeded =>
        /\ emitted[5].chars = CountKind(emitted, "STARTCHAR")
        /\ CountKind(emitted, "STARTCHAR") = CountKind(emitted, "ENDCHAR")
        /\ CountKind(emitted, "ENDCHAR") = Cardinality(DOMAIN face)

WitnessCharsMatchesGlyphs ==
    Succeeded /\ Cardinality(DOMAIN face) = 2 /\ 0 \notin DOMAIN face

RECURSIVE SumWidths(_)
SumWidths(s) ==
    IF s = <<>> THEN 0
    ELSE (IF Head(s).t = "DWIDTH" THEN Head(s).width ELSE 0) + SumWidths(Tail(s))

ClassifiedWidth(adv) ==
    IF (adv + 32) \div 64 > cvt.halfWidth THEN cvt.fullWidth ELSE cvt.halfWidth

\* C7: averageWidth in the FONT line is floor(sum of classified widths * 10 /
\* glyph count), and each glyph's DWIDTH and BBX width is its classified width:
\* full when round(advance) > halfWidth, half otherwise.
AverageWidthIsFloor ==
    Succeeded =>
        /\ emitted[2].averageWidth =
               (SumWidths(emitted) * 10) \div CountKind(emitted, "DWIDTH")
        /\ \A i \in 1..Len(emitted) :
              emitted[i].t = "STARTCHAR" =>
                  /\ emitted[i + 2].width = ClassifiedWidth(face[emitted[i].rune])
                  /\ emitted[i + 3].width = ClassifiedWidth(face[emitted[i].rune])

\* C8: Set at a pixel outside the bounds returns normally and leaves both
\* buffers as they were.
OutOfBoundsSetIgnored ==
    [][(\E w \in Which : \E x \in AnyX(Img(w)) : \E y \in AnyY(Img(w)) : \E c \in Colors :
            ~InBounds(Img(w), x, y) /\ DoSet(w, x, y, c))
        => (~imgPanic' /\ halfImg' = halfImg /\ fullImg' = fullImg)]_vars

\* C9: At gives, for every pixel inside the bounds, the value of the latest Set
\* at that pixel since the last Clear, and background if there was none.
AtReturnsLastSet ==
    \A w \in Which : \A p \in Pixels(Img(w)) :
        At(Img(w), p[1], p[2]) =
            (lastSet[w][p] = "on")

WitnessAtReturnsLastSet ==
    /\ nOps = MaxOps
    /\ \E p, q \in Pixels(fullImg) :
          p # q /\ p[1] >= 8 /\ At(fullImg, p[1], p[2]) /\ At(fullImg, q[1], q[2])

ScanWellFormed(s) ==
    /\ \A i, j \in 1..Len(s) : i < j => s[i][1] < s[j][1]
    /\ \A i \in 1..Len(s) :
          /\ s[i][1] >= 0 /\ s[i][1] <= MaxRune
          /\ s[i][1] \in DOMAIN face /\ s[i][2] = face[s[i][1]]
          /\ (itFilter.kind = "nil" \/ s[i][1] \in itFilter.accept)

Accepted == {c \in 0..MaxRune :
                c \in DOMAIN face /\ (itFilter.kind = "nil" \/ c \in itFilter.accept)}

\* C10: two scans of one face give the same sequence; it is strictly ascending,
\* stays within 0..0xFFFF, holds exactly the codepoints that have an advance and
\* pass the filter, each with its advance, and the scan ends past 0xFFFF.
ScanIsDeterministic ==
    /\ ScanWellFormed(itOut1) /\ ScanWellFormed(itOut2)
    /\ (itPass = 3 /\ ~itStopped) =>
          /\ itOut1 = itOut2
          /\ {itOut1[i][1] : i \in 1..Len(itOut1)} = Accepted
          /\ itR = MaxRune + 1

WitnessScanIsDeterministic ==
    /\ itPass = 3 /\ ~itStopped /\ Len(itOut2) >= 1
    /\ itFilter.kind = "func"
    /\ \E c \in DOMAIN face : c \notin itFilter.accept
    /\ \E c \in 0..MaxRune : c \notin DOMAIN face

====
